---- MODULE Spec2Model ----
(***************************************************************************)
(* Model of Examples/Monocular/mono_live.cc: main() of the live monocular  *)
(* ORB-SLAM3 example.  main is one sequential procedure; pc is its         *)
(* position and each action is one statement (or one run of statements     *)
(* without a branch) of main.  The camera, the steady clock, the keyboard  *)
(* and the tracking engine are the environment: what they return is drawn  *)
(* from small sets.                                                        *)
(*                                                                         *)
(* Time is counted in readings of std::chrono::steady_clock that differ;   *)
(* tframe is the elapsed duration now() - t0 in that unit.                 *)
(***************************************************************************)
EXTENDS Integers, Sequences, FiniteSets, TLC

\* ---------------------------------------------------------------- bounds
\* argv[1..] holds at most MaxArgs strings (argc <= MaxArgs + 1).
MaxArgs == 4
\* The camera delivers at most MaxFrames non-empty frames before a read fails.
MaxFrames == 2

\* ------------------------------------------------------- program constants
KeyMask == 255
KeyQ == 113
KeyEsc == 27

\* ------------------------------------------------------------ input sets
\* argv[1] and argv[2] are the vocabulary and settings paths; an argument
\* after them is one of the two flags main knows or anything else.
Paths == {"path"}
Tokens == {"--gray", "--gstreamer", "other"}
\* What cv::waitKey(1) can return: -1 (no key), 'q', ESC, and a key code with
\* bits above the low byte set whose low byte is 'q'.
RawKeys == {-1, 113, 27, 369}
\* Sizes (cols, rows) and channel counts of the frames the camera delivers.
FrameSizes == {<<640, 480>>, <<1, 1>>}
FrameChannels == {3, 4}
\* The frames <<cols, rows, channels>> the camera delivers in a whole run; every
\* size with every channel count is taken through the preprocessing steps
\* alone, under ScaleSpec.
CameraFrames == {<<640, 480, 3>>, <<1, 1, 4>>}
\* SLAM.GetImageScale() as a fraction <<num, den>>, exactly representable
\* as a float.
Scales == {<<1, 1>>, <<1, 2>>, <<1, 4>>}

\* An empty cv::Mat.  px stands for the pixel data of a frame: the n-th
\* frame the camera delivers carries px = n.
NoFrame == [cols |-> 0, rows |-> 0, ch |-> 0, px |-> 0]

VARIABLES
    pc,            \* position in main
    argv,          \* argv[1..argc-1]
    forceGray,     \* line 42
    useGStreamer,  \* line 43
    capOpened,     \* cap.isOpened()
    engine,        \* the ORB_SLAM3::System object: "none", "up", "shutdown"
    imageScale,    \* line 77
    now,           \* last reading of steady_clock
    t0,            \* line 82
    frame,         \* line 84
    proc,          \* line 84
    tframe,        \* line 93
    key,           \* line 116
    fed,           \* the (image, timestamp) pairs passed to TrackMonocular
    readings,      \* the steady_clock readings taken for the frames
    captured,      \* the non-empty frames cap.read has delivered, in order
    log,           \* the calls main has made, in order
    err,           \* what main has written to std::cerr
    exitCode       \* the process exit status, -1 while running

vars == <<pc, argv, forceGray, useGStreamer, capOpened, engine, imageScale,
          now, t0, frame, proc, tframe, key, fed, readings, captured, log, err,
          exitCode>>

argc == Len(argv) + 1

\* -------------------------------------------------------------- helpers
\* Number of occurrences of e in the sequence s.
Count(s, e) == Cardinality({i \in 1..Len(s) : s[i] = e})

\* Line 33: too few arguments.
ArgsMissingOffByOne(n) == n < 2
ArgsMissing(n) == n < 3

\* Lines 44-48: the flag loop, i from 3 to argc-1.
FlagGiven(a, flag) == \E i \in 3..Len(a) : a[i] = flag

\* steady_clock is monotonic: a reading is never less than the one before.
\* It is either the reading before or a later one; how much later plays no
\* part in main, and a later reading is counted as the next one.
\* (ClockReadingsWallClock: a clock that can be set back, as system_clock.)
ClockReadingsWallClock(prev) == {prev - 1, prev, prev + 1}
ClockReadings(prev) == {prev, prev + 1}

\* Lines 93-95: now() - t0.
ElapsedReversed(reading, start) == start - reading
Elapsed(reading, start) == reading - start

\* Line 89: break leaves the loop for the statement after it, line 120.
AfterGrabFailureReturns == "return"
AfterGrabFailure == "shutdown"

\* Line 117: break leaves the loop for the statement after it, line 120.
AfterQuitKeyReturns == "return"
AfterQuitKey == "shutdown"

\* Line 116: waitKey(1) & 0xFF.
MaskKey(raw) == raw % (KeyMask + 1)

\* Line 117.
IsQuitKeyOnlyQ(k) == k = KeyQ
IsQuitKey(k) == k = KeyQ \/ k = KeyEsc

\* Lines 98-102.
ToGray(f) == [f EXCEPT !.ch = 1]
GrayStepKeepsColor(f, gray) == f
GrayStep(f, gray) == IF gray THEN ToGray(f) ELSE f

\* imageScale is a float (line 77): a fraction <<num, den>> with den a power
\* of two and num below 2^FloatBits.  proc.cols * imageScale (line 106)
\* converts the int to float and multiplies in float: the exact product
\* n * num / den is rounded to FloatBits significant bits, ties to even.
FloatBits == 24

RECURSIVE Pow2(_)
Pow2(k) == IF k = 0 THEN 1 ELSE 2 * Pow2(k - 1)

\* The number of binary digits of n >= 0.
RECURSIVE BitLen(_)
BitLen(n) == IF n = 0 THEN 0 ELSE 1 + BitLen(n \div 2)

\* n >= 0 rounded to FloatBits significant bits, ties to even.
FloatRound(n) ==
    IF n < Pow2(FloatBits)
    THEN n
    ELSE LET unit == Pow2(BitLen(n) - FloatBits)
             q == n \div unit
             r == n % unit
         IN IF 2 * r > unit \/ (2 * r = unit /\ q % 2 = 1)
            THEN (q + 1) * unit
            ELSE q * unit

\* The float product n * s, as a fraction over the denominator of s.
FloatMul(n, s) == <<FloatRound(n * s[1]), s[2]>>

\* std::lround of a fraction q >= 0: round half away from zero.
LRoundOf(q) == (2 * q[1] + q[2]) \div (2 * q[2])

\* static_cast<int>(n * s) in place of lround: the fraction is cut off.
LRoundTruncates(n, s) == FloatMul(n, s)[1] \div s[2]

\* Lines 106-107: std::lround(n * s) for an int n >= 0 and a float s > 0.
LRound(n, s) == LRoundOf(FloatMul(n, s))

\* Line 108: resize is called.
Resizes(f, s) ==
    /\ s[1] /= s[2]
    /\ LRound(f.cols, s) > 0
    /\ LRound(f.rows, s) > 0

\* Lines 105-109.
ScaleStep(f, s) ==
    IF s[1] /= s[2]
    THEN LET w == LRound(f.cols, s)
             h == LRound(f.rows, s)
         IN IF w > 0 /\ h > 0 THEN [f EXCEPT !.cols = w, !.rows = h] ELSE f
    ELSE f

\* ----------------------------------------------------------------- Init
ArgVectors ==
    {a \in UNION {[1..n -> Paths \cup Tokens] : n \in 0..MaxArgs} :
        \A i \in 1..Len(a) : a[i] \in Paths <=> i <= 2}

Init ==
    /\ pc = "args"
    /\ argv \in ArgVectors
    /\ forceGray = FALSE
    /\ useGStreamer = FALSE
    /\ capOpened = FALSE
    /\ engine = "none"
    /\ imageScale = <<1, 1>>
    /\ now = 0
    /\ t0 = 0
    /\ frame = NoFrame
    /\ proc = NoFrame
    /\ tframe = 0
    /\ key = 0
    /\ fed = <<>>
    /\ readings = <<>>
    /\ captured = <<>>
    /\ log = <<>>
    /\ err = <<>>
    /\ exitCode = -1

\* -------------------------------------------------------------- actions
\* Lines 33-37.
CheckArgs ==
    /\ pc = "args"
    /\ IF ArgsMissing(argc)
       THEN /\ err' = Append(err, "usage")
            /\ exitCode' = 1
            /\ pc' = "done"
       ELSE /\ pc' = "flags"
            /\ UNCHANGED <<err, exitCode>>
    /\ UNCHANGED <<argv, forceGray, useGStreamer, capOpened, engine, imageScale,
                   now, t0, frame, proc, tframe, key, fed, readings, captured, log>>

\* Lines 39-48.
ParseFlags ==
    /\ pc = "flags"
    /\ forceGray' = FlagGiven(argv, "--gray")
    /\ useGStreamer' = FlagGiven(argv, "--gstreamer")
    /\ pc' = "open"
    /\ UNCHANGED <<argv, capOpened, engine, imageScale, now, t0, frame, proc,
                   tframe, key, fed, readings, captured, log, err, exitCode>>

\* OpenGStreamer with a fallback: a failed pipeline open clears the flag and
\* goes on to the V4L2 branch instead of returning.
OpenGStreamerFallsBack ==
    /\ pc = "open"
    /\ useGStreamer
    /\ log' = Append(log, "open_gst")
    /\ \E ok \in BOOLEAN :
          IF ok
          THEN /\ capOpened' = TRUE
               /\ pc' = "slam"
               /\ UNCHANGED <<err, exitCode, useGStreamer>>
          ELSE /\ capOpened' = FALSE
               /\ err' = Append(err, "gst_open")
               /\ useGStreamer' = FALSE
               /\ pc' = "open"
               /\ UNCHANGED exitCode
    /\ UNCHANGED <<argv, forceGray, engine, imageScale, now, t0,
                   frame, proc, tframe, key, fed, readings, captured>>

\* Lines 51-61: the GStreamer branch.  A failed open returns 1; cap, an
\* automatic object, is destroyed by the return.
OpenGStreamer ==
    /\ pc = "open"
    /\ useGStreamer
    /\ log' = Append(log, "open_gst")
    /\ \E ok \in BOOLEAN :
          IF ok
          THEN /\ capOpened' = TRUE
               /\ pc' = "slam"
               /\ UNCHANGED <<err, exitCode>>
          ELSE /\ capOpened' = FALSE
               /\ err' = Append(err, "gst_open")
               /\ exitCode' = 1
               /\ pc' = "done"
    /\ UNCHANGED <<argv, forceGray, useGStreamer, engine, imageScale, now, t0,
                   frame, proc, tframe, key, fed, readings, captured>>

\* OpenV4L2 without the return of line 67: a failed open is reported and
\* main goes on.
OpenV4L2NoReturn ==
    /\ pc = "open"
    /\ ~useGStreamer
    /\ log' = Append(log, "open_v4l2")
    /\ \E ok \in BOOLEAN :
          /\ capOpened' = ok
          /\ err' = IF ok THEN err ELSE Append(err, "v4l2_open")
          /\ pc' = "mode"
    /\ UNCHANGED <<argv, forceGray, useGStreamer, engine, imageScale, now, t0,
                   frame, proc, tframe, key, fed, readings, captured, exitCode>>

\* Lines 62-68: the V4L2 branch.
OpenV4L2 ==
    /\ pc = "open"
    /\ ~useGStreamer
    /\ log' = Append(log, "open_v4l2")
    /\ \E ok \in BOOLEAN :
          IF ok
          THEN /\ capOpened' = TRUE
               /\ pc' = "mode"
               /\ UNCHANGED <<err, exitCode>>
          ELSE /\ capOpened' = FALSE
               /\ err' = Append(err, "v4l2_open")
               /\ exitCode' = 1
               /\ pc' = "done"
    /\ UNCHANGED <<argv, forceGray, useGStreamer, engine, imageScale, now, t0,
                   frame, proc, tframe, key, fed, readings, captured>>

\* Lines 70-72: the three mode requests of the V4L2 branch.
RequestMode ==
    /\ pc = "mode"
    /\ log' = log \o <<"set_width", "set_height", "set_fps">>
    /\ pc' = "slam"
    /\ UNCHANGED <<argv, forceGray, useGStreamer, capOpened, engine, imageScale,
                   now, t0, frame, proc, tframe, key, fed, readings, captured, err,
                   exitCode>>

\* Lines 76-80: the engine is constructed and its image scale read.
ConstructSLAM ==
    /\ pc = "slam"
    /\ engine' = "up"
    /\ imageScale' \in Scales
    /\ log' = Append(log, "init")
    /\ pc' = "t0"
    /\ UNCHANGED <<argv, forceGray, useGStreamer, capOpened, now, t0, frame,
                   proc, tframe, key, fed, readings, captured, err, exitCode>>

\* Line 76 when the engine cannot be initialized: the process ends inside
\* the constructor call with status 1.  main has no handler around the call
\* and does not return, so nothing in main releases cap; whether the
\* automatic object is destroyed depends on how the process is ended.
EngineInitError ==
    /\ pc = "slam"
    /\ capOpened' \in {capOpened, FALSE}
    /\ exitCode' = 1
    /\ pc' = "done"
    /\ UNCHANGED <<argv, forceGray, useGStreamer, engine, imageScale, now, t0,
                   frame, proc, tframe, key, fed, readings, captured, log, err>>

\* Line 82.
TakeT0 ==
    /\ pc = "t0"
    /\ now' \in ClockReadings(now)
    /\ t0' = now'
    /\ log' = Append(log, "now_t0")
    /\ pc' = "read"
    /\ UNCHANGED <<argv, forceGray, useGStreamer, capOpened, engine, imageScale,
                   frame, proc, tframe, key, fed, readings, captured, err, exitCode>>

\* Line 87, cap.read(frame) returns true with a non-empty frame.
ReadOk ==
    /\ pc = "read"
    /\ Count(log, "read_ok") < MaxFrames
    /\ \E f \in CameraFrames :
          frame' = [cols |-> f[1], rows |-> f[2], ch |-> f[3],
                    px |-> Len(captured) + 1]
    /\ captured' = Append(captured, frame')
    /\ log' = Append(log, "read_ok")
    /\ pc' = "stamp"
    /\ UNCHANGED <<argv, forceGray, useGStreamer, capOpened, engine, imageScale,
                   now, t0, proc, tframe, key, fed, readings, err, exitCode>>

\* ReadFails with continue in place of break: the read is tried again.
ReadFailsRetries ==
    /\ pc = "read"
    /\ \E what \in {"read_fail", "read_empty"} : log' = Append(log, what)
    /\ frame' = NoFrame
    /\ err' = Append(err, "grab")
    /\ pc' = IF Len(err) < MaxFrames THEN "read" ELSE AfterGrabFailure
    /\ UNCHANGED <<argv, forceGray, useGStreamer, capOpened, engine, imageScale,
                   now, t0, proc, tframe, key, fed, readings, captured, exitCode>>

\* ReadFails without the break: the iteration goes on with the empty frame.
ReadFailsNoBreak ==
    /\ pc = "read"
    /\ \E what \in {"read_fail", "read_empty"} : log' = Append(log, what)
    /\ frame' = NoFrame
    /\ err' = Append(err, "grab")
    /\ pc' = IF Len(err) < MaxFrames THEN "stamp" ELSE AfterGrabFailure
    /\ UNCHANGED <<argv, forceGray, useGStreamer, capOpened, engine, imageScale,
                   now, t0, proc, tframe, key, fed, readings, captured, exitCode>>

\* Lines 87-90, cap.read(frame) returns false, or true with an empty frame.
ReadFails ==
    /\ pc = "read"
    /\ \E what \in {"read_fail", "read_empty"} : log' = Append(log, what)
    /\ frame' = NoFrame
    /\ err' = Append(err, "grab")
    /\ pc' = AfterGrabFailure
    /\ UNCHANGED <<argv, forceGray, useGStreamer, capOpened, engine, imageScale,
                   now, t0, proc, tframe, key, fed, readings, captured, exitCode>>

\* Lines 93-95.
Stamp ==
    /\ pc = "stamp"
    /\ now' \in ClockReadings(now)
    /\ tframe' = Elapsed(now', t0)
    /\ readings' = Append(readings, now')
    /\ log' = Append(log, "now")
    /\ pc' = "gray"
    /\ UNCHANGED <<argv, forceGray, useGStreamer, capOpened, engine, imageScale,
                   t0, frame, proc, key, fed, captured, err, exitCode>>

\* Lines 98-102.
Gray ==
    /\ pc = "gray"
    /\ proc' = GrayStep(frame, forceGray)
    /\ log' = IF forceGray THEN Append(log, "cvtColor") ELSE log
    /\ pc' = "scale"
    /\ UNCHANGED <<argv, forceGray, useGStreamer, capOpened, engine, imageScale,
                   now, t0, frame, tframe, key, fed, readings, captured, err,
                   exitCode>>

\* Lines 105-109.
Rescale ==
    /\ pc = "scale"
    /\ proc' = ScaleStep(proc, imageScale)
    /\ log' = IF Resizes(proc, imageScale) THEN Append(log, "resize") ELSE log
    /\ pc' = "track"
    /\ UNCHANGED <<argv, forceGray, useGStreamer, capOpened, engine, imageScale,
                   now, t0, frame, tframe, key, fed, readings, captured, err,
                   exitCode>>

\* TrackMonocular with the timestamp taken anew at the call.
TrackMonocularRestamps ==
    /\ pc = "track"
    /\ now' \in ClockReadings(now)
    /\ fed' = Append(fed, [img |-> proc, t |-> Elapsed(now', t0)])
    /\ log' = log \o <<"now", "track">>
    /\ pc' = "poll"
    /\ UNCHANGED <<argv, forceGray, useGStreamer, capOpened, engine, imageScale,
                   t0, frame, proc, tframe, key, readings, captured, err,
                   exitCode>>

\* TrackMonocular with the first frame of the session left out.
TrackMonocularSkipsFirst ==
    /\ pc = "track"
    /\ fed' = IF Len(captured) = 1
              THEN fed
              ELSE Append(fed, [img |-> proc, t |-> tframe])
    /\ log' = IF Len(captured) = 1 THEN log ELSE Append(log, "track")
    /\ pc' = "poll"
    /\ UNCHANGED <<argv, forceGray, useGStreamer, capOpened, engine, imageScale,
                   now, t0, frame, proc, tframe, key, readings, captured, err,
                   exitCode>>

\* Line 112.
TrackMonocular ==
    /\ pc = "track"
    /\ fed' = Append(fed, [img |-> proc, t |-> tframe])
    /\ log' = Append(log, "track")
    /\ pc' = "poll"
    /\ UNCHANGED <<argv, forceGray, useGStreamer, capOpened, engine, imageScale,
                   now, t0, frame, proc, tframe, key, readings, captured, err, exitCode>>

\* Lines 115-117.
PollKey ==
    /\ pc = "poll"
    /\ \E raw \in RawKeys : key' = MaskKey(raw)
    /\ log' = log \o <<"imshow", "waitKey">>
    /\ pc' = IF IsQuitKey(key') THEN AfterQuitKey ELSE "read"
    /\ UNCHANGED <<argv, forceGray, useGStreamer, capOpened, engine, imageScale,
                   now, t0, frame, proc, tframe, fed, readings, captured, err, exitCode>>

\* Line 120 left out: main goes on to the export without calling Shutdown.
ShutdownOmitted ==
    /\ pc = "shutdown"
    /\ pc' = "save"
    /\ UNCHANGED <<argv, forceGray, useGStreamer, capOpened, engine, imageScale,
                   now, t0, frame, proc, tframe, key, fed, readings, captured, log, err,
                   exitCode>>

\* Line 120.
Shutdown ==
    /\ pc = "shutdown"
    /\ engine' = "shutdown"
    /\ log' = Append(log, "shutdown")
    /\ pc' = "save"
    /\ UNCHANGED <<argv, forceGray, useGStreamer, capOpened, imageScale, now, t0,
                   frame, proc, tframe, key, fed, readings, captured, err, exitCode>>

\* Lines 120-121 inside the loop: after the export main reads again.
SaveInsideLoop ==
    /\ pc = "save"
    /\ log' = Append(log, "save")
    /\ pc' = IF Count(log, "save") < MaxFrames THEN "read" ELSE "return"
    /\ UNCHANGED <<argv, forceGray, useGStreamer, capOpened, engine, imageScale,
                   now, t0, frame, proc, tframe, key, fed, readings, captured, err,
                   exitCode>>

\* Line 121.
SaveKeyFrameTrajectoryTUM ==
    /\ pc = "save"
    /\ log' = Append(log, "save")
    /\ pc' = "return"
    /\ UNCHANGED <<argv, forceGray, useGStreamer, capOpened, engine, imageScale,
                   now, t0, frame, proc, tframe, key, fed, readings, captured, err,
                   exitCode>>

\* Return0 with the status telling a grab failure: 1 after "failed to grab".
Return0ReportsGrabFailure ==
    /\ pc = "return"
    /\ capOpened' = FALSE
    /\ exitCode' = IF \E i \in 1..Len(err) : err[i] = "grab" THEN 1 ELSE 0
    /\ pc' = "done"
    /\ UNCHANGED <<argv, forceGray, useGStreamer, engine, imageScale, now, t0,
                   frame, proc, tframe, key, fed, readings, captured, log, err>>

\* Line 122: return 0 destroys the automatic objects SLAM and cap.
Return0 ==
    /\ pc = "return"
    /\ capOpened' = FALSE
    /\ exitCode' = 0
    /\ pc' = "done"
    /\ UNCHANGED <<argv, forceGray, useGStreamer, engine, imageScale, now, t0,
                   frame, proc, tframe, key, fed, readings, captured, log, err>>

Next ==
    \/ CheckArgs
    \/ ParseFlags
    \/ OpenGStreamer
    \/ OpenV4L2
    \/ RequestMode
    \/ ConstructSLAM
    \/ EngineInitError
    \/ TakeT0
    \/ ReadOk
    \/ ReadFails
    \/ Stamp
    \/ Gray
    \/ Rescale
    \/ TrackMonocular
    \/ PollKey
    \/ Shutdown
    \/ SaveKeyFrameTrajectoryTUM
    \/ Return0

Spec == Init /\ [][Next]_vars

\* main is sequential and none of its calls blocks for ever: a step that can
\* be taken is taken.
FairSpec == Spec /\ WF_vars(Next)

\* ------------------------------------------- the preprocessing steps alone
\* Lines 97-112 of one iteration, for a wider choice of frame sizes and
\* image scales than Spec draws: main has read its first frame and taken its
\* timestamp.  The scales are 1, 1/2, 1/4, 3/2, 2 and the floats nearest to
\* 0.7 and to 5/6.
ScaleFloats == {<<11744051, 16777216>>, <<13981013, 16777216>>}
ScaleCases ==
    ({1, 2, 3, 5} \X {1, 2, 3, 5} \X
        ({<<1, 1>>, <<1, 2>>, <<1, 4>>, <<3, 2>>, <<2, 1>>} \cup ScaleFloats))
    \cup {<<size[1], size[2], sc>> : size \in FrameSizes,
                sc \in Scales \cup {<<3, 2>>}}

ScaleInit ==
    /\ pc = "gray"
    /\ argv \in {<<"path", "path">>, <<"path", "path", "--gray">>}
    /\ forceGray = FlagGiven(argv, "--gray")
    /\ useGStreamer = FlagGiven(argv, "--gstreamer")
    /\ capOpened = TRUE
    /\ engine = "up"
    /\ \E c \in ScaleCases, n \in FrameChannels :
          /\ imageScale = c[3]
          /\ frame = [cols |-> c[1], rows |-> c[2], ch |-> n, px |-> 1]
    /\ now = 0
    /\ t0 = 0
    /\ proc = NoFrame
    /\ tframe = Elapsed(now, t0)
    /\ key = 0
    /\ fed = <<>>
    /\ readings = <<now>>
    /\ captured = <<frame>>
    /\ log = <<"open_v4l2", "set_width", "set_height", "set_fps", "init",
               "now_t0", "read_ok", "now">>
    /\ err = <<>>
    /\ exitCode = -1

ScaleNext ==
    \/ Gray
    \/ Rescale
    \/ TrackMonocular

ScaleSpec == ScaleInit /\ [][ScaleNext]_vars

\* ------------------------------------------------------ claim vocabulary
Logged(e) == \E i \in 1..Len(log) : log[i] = e
Reported(m) == \E i \in 1..Len(err) : err[i] = m
Done == pc = "done"
\* main reached the while loop of line 85.
LoopEntered == Logged("now_t0")
GrabFailed == Logged("read_fail") \/ Logged("read_empty")
QuitKeySeen == Logged("waitKey") /\ IsQuitKey(key)
OpenFailed == Reported("gst_open") \/ Reported("v4l2_open")
OpenAttempts == Count(log, "open_gst") + Count(log, "open_v4l2")
ModeRequested == Logged("set_width") \/ Logged("set_height") \/ Logged("set_fps")

\* ------------------------------------------------------------------- C1
\* C1: a run that has initialized the engine and entered the capture loop
\* has, when it ends, called Shutdown exactly once and exported the
\* keyframe trajectory exactly once, whether the loop was left by a quit
\* key, by a failed read or by an empty frame; neither is ever called twice.
C1_ShutdownAndExportOnce ==
    /\ Count(log, "shutdown") <= 1
    /\ Count(log, "save") <= 1
    /\ (Done /\ Logged("init") /\ LoopEntered) =>
          /\ GrabFailed \/ QuitKeySeen
          /\ Count(log, "shutdown") = 1
          /\ Count(log, "save") = 1

\* A run that fed a frame, was left by a failed read, and has ended.
C1_Witness ==
    /\ Done
    /\ Logged("read_fail")
    /\ Len(fed) >= 1
    /\ Count(log, "shutdown") = 1
    /\ Count(log, "save") = 1

\* ------------------------------------------------------------------- C2
\* C2: the trajectory export is never performed before Shutdown (every
\* export in the call order has a Shutdown before it), and Shutdown is
\* performed at most once.
C2_ExportAfterShutdown ==
    /\ \A i \in 1..Len(log) :
          log[i] = "save" => \E j \in 1..(i - 1) : log[j] = "shutdown"
    /\ Count(log, "shutdown") <= 1

\* The export has been performed after a quit key.
C2_Witness == Logged("save") /\ QuitKeySeen /\ engine = "shutdown"

\* ------------------------------------------------------------------- C3
\* C3: at most one open is attempted in a run; when --gstreamer is given
\* only the pipeline open is attempted, and the V4L2 open and its
\* width/height/fps requests never are; when it is not given only the V4L2
\* open is attempted; after a failed open the process has ended with that
\* one attempt and nothing else called.
C3_BackendExclusive ==
    /\ OpenAttempts <= 1
    /\ FlagGiven(argv, "--gstreamer") =>
          ~Logged("open_v4l2") /\ ~ModeRequested
    /\ ~FlagGiven(argv, "--gstreamer") => ~Logged("open_gst")
    /\ OpenFailed => Done /\ Len(log) = 1 /\ ~capOpened

\* The pipeline open was selected and failed.
C3_Witness ==
    /\ FlagGiven(argv, "--gstreamer")
    /\ Reported("gst_open")
    /\ Done
    /\ log = <<"open_gst">>

\* ------------------------------------------------------------------- C4
\* C4: when the open of the selected backend fails the process exits with
\* code 1, and the engine is never initialized, fed or shut down and no
\* trajectory is exported: the loop is never entered.
C4_OpenFailureExits ==
    OpenFailed =>
        /\ Done
        /\ exitCode = 1
        /\ engine = "none"
        /\ ~Logged("init")
        /\ ~Logged("track")
        /\ ~Logged("shutdown")
        /\ ~Logged("save")
        /\ ~LoopEntered
        /\ fed = <<>>

\* The V4L2 open failed.
C4_Witness == Reported("v4l2_open") /\ Done /\ exitCode = 1

\* ------------------------------------------------------------------- C5
\* C5: of two frames fed one after the other, the later one's timestamp is
\* greater than or equal to the earlier one's.
C5_TimestampsNonDecreasing ==
    \A i \in 1..(Len(fed) - 1) : fed[i + 1].t >= fed[i].t

\* Two frames have been fed with a start time that is not the clock's zero,
\* the clock having advanced between them.
C5_Witness ==
    /\ Len(fed) >= 2
    /\ t0 > 0
    /\ fed[2].t > fed[1].t

\* ------------------------------------------------------------------- C6
\* C6 as stated: of two frames fed one after the other, the later one's
\* timestamp is strictly greater than the earlier one's.
C6_TimestampsStrictlyIncreasing ==
    \A i \in 1..(Len(fed) - 1) : fed[i + 1].t > fed[i].t

\* C6 as amended: no frame is fed with a timestamp less than that of the
\* frame before it, and two frames for which the steady clock returned the
\* same reading are fed with equal timestamps: the sequence is
\* non-decreasing and a tie is possible.
C6_TimestampsTieWhenClockStands ==
    \A i \in 1..(Len(fed) - 1) :
        /\ fed[i + 1].t >= fed[i].t
        /\ readings[i + 1] = readings[i] => fed[i + 1].t = fed[i].t

\* Two frames have been fed with the same timestamp.
C6_Witness ==
    /\ Len(fed) >= 2
    /\ readings[2] = readings[1]
    /\ fed[2].t = fed[1].t

\* ------------------------------------------------------------------- C7
\* The position in the call order of the first read that failed or gave an
\* empty frame (0 when there is none).
FirstFailedRead ==
    LET at == {i \in 1..Len(log) : log[i] \in {"read_fail", "read_empty"}}
    IN IF at = {} THEN 0 ELSE CHOOSE i \in at : \A j \in at : i <= j

\* C7: when the k-th read is the first to fail or to give an empty frame,
\* exactly k-1 frames have been fed, the calls after the failing read are
\* Shutdown and then the export and nothing else (no feed, no read), and the
\* process exits with code 0; k = 1 feeds nothing.
C7_ReadFailureEndsRun ==
    LET n == FirstFailedRead
        k == Count(log, "read_ok") + 1
    IN n > 0 =>
          /\ Count(SubSeq(log, 1, n), "read_ok") = k - 1
          /\ Len(fed) = k - 1
          /\ Count(log, "track") = k - 1
          /\ SubSeq(log, n + 1, Len(log)) \in
                {<<>>, <<"shutdown">>, <<"shutdown", "save">>}
          /\ exitCode \in {-1, 0}
          /\ Done => /\ SubSeq(log, n + 1, Len(log)) = <<"shutdown", "save">>
                     /\ exitCode = 0

\* The third read failed after two frames were fed, and the run has ended.
C7_Witness ==
    /\ Done
    /\ GrabFailed
    /\ Count(log, "read_ok") = 2
    /\ Len(fed) = 2
    /\ exitCode = 0

\* ------------------------------------------------------------------- C8
\* C8: with fewer than two positional arguments the process exits with code
\* 1 and neither an open nor the engine initialization is attempted; a failed
\* open exits with code 1; a run that left the loop and completed Shutdown
\* and the export exits with code 0; no run exits with code 0 without
\* Shutdown and the export.
C8_ExitCodes ==
    /\ argc < 3 => /\ log = <<>>
                   /\ engine = "none"
                   /\ ~capOpened
                   /\ Done => exitCode = 1
    /\ (OpenFailed /\ Done) => exitCode = 1
    /\ (Done /\ LoopEntered) => exitCode = 0
    /\ exitCode = 0 => /\ Done
                       /\ Count(log, "shutdown") = 1
                       /\ Count(log, "save") = 1
    /\ Done <=> exitCode /= -1

\* The usage error: one positional argument only.
C8_Witness == Len(argv) = 1 /\ Done /\ exitCode = 1 /\ Reported("usage")

\* ------------------------------------------------------------------- C9
\* C9 as stated: every run that has ended has completed Shutdown and the
\* export exactly once, the argument-error and open-failure exits included.
C9_EveryExitTerminated ==
    Done => Count(log, "shutdown") = 1 /\ Count(log, "save") = 1

\* C9 as amended: a run that entered the capture loop completes Shutdown and
\* the export exactly once before it exits; a run that exits on the argument
\* error, on a failed open or on a failed engine initialization exits
\* without Shutdown and without the export.
C9_TerminatedOnlyAfterLoop ==
    /\ Count(log, "shutdown") <= 1
    /\ Count(log, "save") <= 1
    /\ Done =>
          IF LoopEntered
          THEN log[Len(log) - 1] = "shutdown" /\ log[Len(log)] = "save"
          ELSE ~Logged("shutdown") /\ ~Logged("save")

\* The run ended on the usage error with neither Shutdown nor the export.
C9_Witness ==
    /\ Done
    /\ argc < 3
    /\ ~Logged("shutdown")
    /\ ~Logged("save")

\* ------------------------------------------------------------------ C10
\* C10: when the process has ended the capture handle is closed and an
\* initialized engine has been shut down.
C10_ReleasedAtExit ==
    Done => ~capOpened /\ engine /= "up"

\* ------------------------------------------------------------------ C11
\* Round half away from zero of the exact product n * s, s = num/den.
RoundExact(n, s) == (2 * n * s[1] + s[2]) \div (2 * s[2])

\* p is the float nearest to the exact numerator n: a multiple of the unit
\* in the last place of n, at most half a unit away, the even multiple on a
\* tie.
NearestFloat(p, n) ==
    LET unit == IF BitLen(n) > FloatBits THEN Pow2(BitLen(n) - FloatBits) ELSE 1
        away == IF p > n THEN p - n ELSE n - p
    IN /\ p % unit = 0
       /\ 2 * away <= unit
       /\ 2 * away = unit => (p \div unit) % 2 = 0

\* r is p / den rounded half away from zero: r - 1/2 <= p / den < r + 1/2.
NearestInt(r, p, den) ==
    /\ 2 * den * r - den <= 2 * p
    /\ 2 * p < 2 * den * r + den

\* lround of the single-precision product n * s, stated by what it is.
ExpectedDim(n, s) ==
    LET e == n * s[1]
    IN CHOOSE r \in 0..(2 * RoundExact(n, s) + 1) :
          \E p \in (e - 4)..(e + 4) : NearestFloat(p, e) /\ NearestInt(r, p, s[2])

\* The sizes of a frame.
Dims(f) == <<f.cols, f.rows>>

\* C11 as stated: the fed frame has the dimensions (round(w*s), round(h*s))
\* of the exact products when both are positive, and (w, h) otherwise.
C11_RoundOfExactProduct ==
    \A i \in 1..Len(fed) :
        LET w == captured[i].cols
            h == captured[i].rows
            a == RoundExact(w, imageScale)
            b == RoundExact(h, imageScale)
        IN Dims(fed[i].img) = IF a > 0 /\ b > 0 THEN <<a, b>> ELSE <<w, h>>

\* C11 as amended: the fed frame has the dimensions (lround(w*s),
\* lround(h*s)) with the products computed in single precision (rounded to
\* the nearest float before lround rounds half away from zero) when both
\* are positive, and (w, h) otherwise; these are round(w*s), round(h*s)
\* whenever the products are exact in single precision, so s = 1 keeps the
\* dimensions and s = 1/2 takes 640x480 to 320x240.
C11_RoundOfFloatProduct ==
    \A i \in 1..Len(fed) :
        LET w == captured[i].cols
            h == captured[i].rows
            s == imageScale
            a == ExpectedDim(w, s)
            b == ExpectedDim(h, s)
            out == Dims(fed[i].img)
        IN /\ out = IF a > 0 /\ b > 0 THEN <<a, b>> ELSE <<w, h>>
           /\ (w * s[1] < Pow2(FloatBits) /\ h * s[1] < Pow2(FloatBits)) =>
                 out = IF RoundExact(w, s) > 0 /\ RoundExact(h, s) > 0
                       THEN <<RoundExact(w, s), RoundExact(h, s)>>
                       ELSE <<w, h>>
           /\ s = <<1, 1>> => out = <<w, h>>
           /\ (s = <<1, 2>> /\ w = 640 /\ h = 480) => out = <<320, 240>>

\* A 3x5 frame has been fed at scale 1/2 as 2x3: 1.5 and 2.5 both round away
\* from zero.
C11_Witness ==
    /\ Len(fed) = 1
    /\ Dims(captured[1]) = <<3, 5>>
    /\ imageScale = <<1, 2>>
    /\ Dims(fed[1].img) = <<2, 3>>
    /\ Logged("resize")

\* ------------------------------------------------------------------ C12
\* C12: when --gray is given every frame fed to the engine has one channel;
\* when it is not given every fed frame has the channel count of the frame
\* that was captured.
C12_ChannelsOfFedFrames ==
    \A i \in 1..Len(fed) :
        fed[i].img.ch = IF FlagGiven(argv, "--gray") THEN 1 ELSE captured[i].ch

\* With --gray, a four-channel frame has been fed with one channel.
C12_Witness ==
    /\ FlagGiven(argv, "--gray")
    /\ Len(fed) >= 1
    /\ captured[1].ch = 4
    /\ fed[1].img.ch = 1

\* ------------------------------------------------------------------ C13
\* The position in the call order of the n-th successful read.
ReadOkAt(n) ==
    CHOOSE i \in 1..Len(log) :
        log[i] = "read_ok" /\ Count(SubSeq(log, 1, i), "read_ok") = n

\* C13: the frames fed are the frames read, in the order read and one for
\* one: the i-th fed frame carries the pixels of the i-th frame read, at most
\* the frame being preprocessed is read and not yet fed, every frame read
\* before it has been fed exactly once, and a read is issued only when every
\* frame read has been fed.
C13_FedInCaptureOrder ==
    /\ Len(captured) = Count(log, "read_ok")
    /\ Len(fed) = Count(log, "track")
    /\ Len(fed) <= Len(captured)
    /\ Len(captured) <= Len(fed) + 1
    /\ \A i \in 1..Len(fed) : fed[i].img.px = captured[i].px
    /\ \A i \in 1..Len(captured) :
          /\ captured[i].px = i
          /\ Count(SubSeq(log, 1, ReadOkAt(i)), "track") = i - 1
    /\ pc \in {"read", "shutdown", "save", "return"} => Len(fed) = Len(captured)
    /\ (Done /\ LoopEntered) => Len(fed) = Len(captured)

\* Two frames have been read and fed, and the next read is due.
C13_Witness ==
    /\ pc = "read"
    /\ Len(captured) = 2
    /\ Len(fed) = 2
    /\ fed[1].img.px = 1
    /\ fed[2].img.px = 2

\* ------------------------------------------------------------------ C14
\* C14: the clock is read once for every successfully read frame, right
\* after the read and before any preprocessing or feeding of the frame, and
\* never for a failed or empty read; the timestamp fed with a frame is that
\* reading (relative to t0), whatever the grayscale conversion and the
\* rescaling did.
C14_OneClockReadingPerFrame ==
    /\ \A i \in 1..Len(log) :
          /\ (log[i] = "read_ok" /\ i < Len(log)) => log[i + 1] = "now"
          /\ log[i] = "now" => (i > 1 /\ log[i - 1] = "read_ok")
    /\ Len(readings) = Count(log, "now")
    /\ pc /= "stamp" => Count(log, "now") = Count(log, "read_ok")
    /\ \A i \in 1..Len(fed) : fed[i].t = readings[i] - t0
    /\ pc \in {"gray", "scale", "track"} =>
          tframe = readings[Len(readings)] - t0

\* A frame that was converted to gray and resized has been fed with the
\* reading taken for it, with a start time other than zero.
C14_Witness ==
    /\ Len(fed) = 2
    /\ Logged("cvtColor")
    /\ Logged("resize")
    /\ t0 = 1
    /\ readings = <<1, 2>>
    /\ fed[2].t = 1

\* ------------------------------------------------------------------ C15
\* The position in the call order of the last key poll (0 when none).
LastPoll ==
    LET at == {i \in 1..Len(log) : log[i] = "waitKey"}
    IN IF at = {} THEN 0 ELSE CHOOSE i \in at : \A j \in at : j <= i

\* C15: the key is polled once in every iteration, after the frame of the
\* iteration has been fed, and is cut to its low byte; when the polled key
\* is 'q' or ESC the loop is left with that frame fed, and no read and no
\* feed follows the poll.
C15_QuitKeyLeavesLoop ==
    /\ \A i \in 1..Len(log) :
          log[i] = "waitKey" =>
              i > 2 /\ log[i - 1] = "imshow" /\ log[i - 2] = "track"
    /\ Count(log, "waitKey") <= Count(log, "track")
    /\ Count(log, "track") <= Count(log, "waitKey") + 1
    /\ pc = "read" => Count(log, "waitKey") = Count(log, "track")
    /\ LastPoll > 0 => key \in 0..KeyMask
    /\ (LastPoll > 0 /\ key \in {KeyQ, KeyEsc}) =>
          /\ pc \in {"shutdown", "save", "return", "done"}
          /\ SubSeq(log, LastPoll + 1, Len(log)) \in
                {<<>>, <<"shutdown">>, <<"shutdown", "save">>}
          /\ Len(fed) = Len(captured)

\* ESC was polled after the first frame was fed and the run has ended.
C15_Witness ==
    /\ Done
    /\ key = KeyEsc
    /\ Len(fed) = 1
    /\ Count(log, "waitKey") = 1

\* ------------------------------------------------------------------ C16
\* C16: after the first failed read or empty frame the capture source is
\* not read again and not opened again, the loop is left for good, and
\* nothing is stamped, preprocessed, fed or shown for the failing read.
C16_NoReadAfterFailure ==
    LET n == FirstFailedRead
    IN n > 0 =>
          /\ \A j \in (n + 1)..Len(log) : log[j] \in {"shutdown", "save"}
          /\ Count(log, "read_fail") + Count(log, "read_empty") = 1
          /\ OpenAttempts = 1
          /\ pc \in {"shutdown", "save", "return", "done"}
          /\ Len(fed) = Len(captured)
          /\ Len(readings) = Len(captured)
          /\ frame = NoFrame

\* The second read gave an empty frame and Shutdown has been called.
C16_Witness ==
    /\ Logged("read_empty")
    /\ Len(captured) = 1
    /\ Len(fed) = 1
    /\ pc = "save"

\* ------------------------------------------------------------------ C17
\* C17: a frame is fed only after an open and the engine initialization
\* have succeeded, the capture being open and the engine up during the whole
\* loop; after Shutdown or the export nothing is read, stamped or fed.
C17_FedOnlyWhileRunning ==
    /\ \A i \in 1..Len(log) :
          /\ log[i] = "track" =>
                /\ \E j \in 1..(i - 1) : log[j] \in {"open_gst", "open_v4l2"}
                /\ \E j \in 1..(i - 1) : log[j] = "init"
          /\ log[i] \in {"shutdown", "save"} =>
                \A j \in (i + 1)..Len(log) :
                    log[j] \notin {"read_ok", "read_fail", "read_empty", "now",
                                   "now_t0", "track", "cvtColor", "resize"}
    /\ fed /= <<>> => ~OpenFailed
    /\ pc \in {"read", "stamp", "gray", "scale", "track", "poll"} =>
          capOpened /\ engine = "up"
    /\ engine = "shutdown" => pc \in {"save", "return", "done"}

\* With the pipeline backend, a frame was fed and the export has happened.
C17_Witness ==
    /\ Logged("open_gst")
    /\ Len(fed) >= 1
    /\ Logged("save")
    /\ engine = "shutdown"

\* ------------------------------------------------------------------ C18
\* The positions of main inside the while loop of lines 85-118.
LoopPcs == {"read", "stamp", "gray", "scale", "track", "poll"}
QuitPolled == LastPoll > 0 /\ key \in {KeyQ, KeyEsc}

\* A step that leaves the loop is a failed or empty read or the poll of a
\* quit key; a successful read and the poll of any other key stay in it.
LoopLeftOnlyBy ==
    /\ (pc \in LoopPcs /\ pc' \notin LoopPcs) =>
          \/ pc = "read" /\ log' # log
                /\ log'[Len(log')] \in {"read_fail", "read_empty"}
          \/ pc = "poll" /\ key' \in {KeyQ, KeyEsc}
    /\ (pc = "poll" /\ key' \notin {KeyQ, KeyEsc}) => pc' = "read"
    /\ (pc = "read" /\ log' # log /\ log'[Len(log')] = "read_ok") =>
          pc' = "stamp"

\* C18: once in the loop, main leaves it only by a failed or empty read or
\* by a polled quit key: every other step of the loop stays in the loop, so
\* that a run whose reads succeed and whose polls see no quit key goes on
\* iterating; and, every step that can be taken being taken, a failed read
\* or a polled quit key is followed by Shutdown, the export and exit code 0.
C18_LoopExitAndTermination ==
    /\ []((LoopEntered /\ pc \notin LoopPcs) => (GrabFailed \/ QuitPolled))
    /\ [][LoopLeftOnlyBy]_vars
    /\ (GrabFailed \/ QuitPolled) ~>
          (Done /\ exitCode = 0 /\ Logged("shutdown") /\ Logged("save"))

\* A run of two iterations that a quit key ended with exit code 0.
C18_Witness ==
    /\ Done
    /\ QuitPolled
    /\ ~GrabFailed
    /\ Len(fed) = 2
    /\ exitCode = 0
====
